---- MODULE Spec2Model ----
(***************************************************************************)
(* my_vec: DynamicSizeArray<T> over RawDynamicSizeArray<T>.                *)
(*                                                                         *)
(* The heap is modelled by three things: `elements` (the pointer field),   *)
(* `allocated` (the number of slots of the block the allocator really      *)
(* handed out, 0 when there is none) and `mem` (what is stored at          *)
(* elements+i, for the first MaxLength slots and every further slot        *)
(* written).  A slot holds an element or Uninit: it was never written, or  *)
(* its element has been moved out.  An access outside [0, allocated) is    *)
(* undefined behaviour: an out-of-block write either lands or is lost (the *)
(* slot then holds garbage), and reading a slot that holds no element      *)
(* yields an arbitrary value.                                              *)
(***************************************************************************)
EXTENDS Integers, Sequences, FiniteSets, TLC

\* ---------------------------------------------------------------- bounds
MaxLength == 3
NumValues == 2
\* pushes of a run that only pushes
MaxPushes == 9
\* capacity up to which the raw buffer is grown on its own
MaxCapacity == 32
\* bytes of a chunk, largest byte value, loop iterations followed
MaxChunk == 3
MaxByte == 2
MaxIterations == 5

\* ------------------------------------------------------------- constants
\* size_of::<T>() for the element type used by Chunk (u8)
ELEMENT_SIZE == 1
\* isize::MAX (of a 32-bit target, the largest the checker's integers hold)
MAX_ALLOCATION_SIZE == 2147483647
\* usize::MIN, the capacity of a new buffer when ELEMENT_SIZE # 0
NEW_CAPACITY == 0

Values == 1..NumValues
Uninit == 0
Slots == 0..(MaxLength - 1)
Bytes == 0..MaxByte
Variants == {"lib", "raw"}

VARIABLES
    variant,    \* which RawDynamicSizeArray::grow is compiled in: lib.rs or raw.rs
    elements,   \* buffer.elements: "dangling" or "block"
    capacity,   \* buffer.capacity
    allocated,  \* slots of the block really allocated at `elements` (0: none)
    mem,        \* contents of the slots elements+0 .. elements+MaxLength-1 and of
                \* every further slot written
    length,     \* DynamicSizeArray.length
    op,         \* the last call and what it returned
    prev,       \* the live sequence before the last call, when that was an insert_checked that returned Ok
    grows,      \* number of grow() calls that returned Ok
    dropped,    \* the array has been destroyed
    released,   \* number of element destructors run by the teardown
    deallocs,   \* the dealloc calls of the teardown: <<[elements, slots]>>
    phase,      \* push-then-pop scenario tracker: "pushing", "popping", "off"
    pushed,     \* values pushed in the scenario
    popped,     \* results of the pops of the scenario
    chunk,      \* Chunk.source as bytes
    pc,         \* Chunk: "build", or inside disassemble: "loop", "done"
    offset,     \* disassemble: the local `offset`
    iterations  \* disassemble: iterations of the while loop so far

vars == <<variant, elements, capacity, allocated, mem, length, op, prev, grows,
          dropped, released, deallocs, phase, pushed, popped,
          chunk, pc, offset, iterations>>

\* ------------------------------------------------------------ results
NoValue == 0
Res(tag, val) == [tag |-> tag, val |-> val]
Ok == Res("Ok", NoValue)
None == Res("None", NoValue)
Some(v) == Res("Some", v)
IndexOutOfBounds == Res("IndexOutOfBounds", NoValue)
GrowErrorLayout == Res("Layout", NoValue)
AllocationTooLarge == Res("AllocationTooLarge", NoValue)
AllocationFail == Res("AllocationFail", NoValue)
GrowErrors == {GrowErrorLayout, AllocationTooLarge, AllocationFail}

\* one call: name, arguments, result, and whether it touched memory outside
\* the allocated block or read a slot that holds no element
Call(name, index, value, result, ub) ==
    [name |-> name, index |-> index, value |-> value, result |-> result, ub |-> ub]

\* ------------------------------------------------------------ raw buffer
\* Layout::array::<T>(n): Ok iff n * size_of::<T>() <= isize::MAX
LayoutOk(n) == n * ELEMENT_SIZE <= MAX_ALLOCATION_SIZE
LayoutSize(n) == n * ELEMENT_SIZE

\* mutant of larger_capacity: no floor, the capacity is only doubled
larger_capacity_NoFloor(c) == c * 2

\* raw.rs larger_capacity
larger_capacity(c) == IF c < 8 THEN 8 ELSE c * 2

\* mutant of NextCapacity: the capacity grows by one slot
NextCapacity_PlusOne(c) == c + 1

\* mutant of NextCapacity: the new capacity is halved instead of doubled
NextCapacity_Halving(c) == c \div 2

\* the capacity written at mark [4] of grow
NextCapacity(c) == IF variant = "raw" THEN larger_capacity(c) ELSE c * 2

AllUninit == [i \in Slots |-> Uninit]

Buf(c, e, a, m, r, u) ==
    [capacity |-> c, elements |-> e, allocated |-> a, mem |-> m, result |-> r, ub |-> u]

\* mutant of grow: the new block is not given the contents of the old one
grow_NoCopy(allocOk) ==
    IF capacity = 0
    THEN IF ~LayoutOk(1)
         THEN Buf(1, elements, allocated, mem, GrowErrorLayout, FALSE)
         ELSE IF allocOk
              THEN Buf(1, "block", 1, AllUninit, Ok, FALSE)
              ELSE Buf(1, elements, allocated, mem, AllocationFail, FALSE)
    ELSE IF ~LayoutOk(capacity)
         THEN Buf(capacity, elements, allocated, mem, GrowErrorLayout, FALSE)
         ELSE LET c2 == NextCapacity(capacity)
                  bad == allocated # capacity
              IN  IF ~LayoutOk(c2)
                  THEN Buf(c2, elements, allocated, mem, GrowErrorLayout, FALSE)
                  ELSE IF LayoutSize(c2) > MAX_ALLOCATION_SIZE
                       THEN Buf(c2, elements, allocated, mem, AllocationTooLarge, FALSE)
                       ELSE IF allocOk
                            THEN Buf(c2, "block", c2, AllUninit, Ok, bad)
                            ELSE Buf(c2, elements, allocated, mem, AllocationFail, bad)

\* RawDynamicSizeArray::grow.  allocOk: the allocator returns a non-null pointer.
grow(allocOk) ==
    IF capacity = 0
    THEN \* self.capacity = 1 is written before layout()? and alloc
         IF ~LayoutOk(1)
         THEN Buf(1, elements, allocated, mem, GrowErrorLayout, FALSE)
         ELSE IF allocOk
              THEN Buf(1, "block", 1, AllUninit, Ok, FALSE)
              ELSE Buf(1, elements, allocated, mem, AllocationFail, FALSE)
    ELSE IF ~LayoutOk(capacity)
         THEN Buf(capacity, elements, allocated, mem, GrowErrorLayout, FALSE)
         ELSE LET c2 == NextCapacity(capacity)
                  \* realloc(old_pointer, old_layout, ..) with a layout that is
                  \* not the one the block was allocated with
                  bad == allocated # capacity
              IN  IF ~LayoutOk(c2)
                  THEN Buf(c2, elements, allocated, mem, GrowErrorLayout, FALSE)
                  ELSE IF LayoutSize(c2) > MAX_ALLOCATION_SIZE
                       THEN Buf(c2, elements, allocated, mem, AllocationTooLarge, FALSE)
                       ELSE IF allocOk
                            THEN Buf(c2, "block", c2,
                                     [i \in DOMAIN mem |-> IF i < capacity THEN mem[i] ELSE Uninit],
                                     Ok, bad)
                            ELSE Buf(c2, elements, allocated, mem, AllocationFail, bad)

\* ------------------------------------------------------------ memory
\* ptr::write of v to slot i of a block of a slots; lands: an out-of-block
\* write is kept by the memory it hits
WriteSlot(m, a, i, v, lands) ==
    [j \in DOMAIN m \cup {i} |->
        IF j = i THEN (IF i < a \/ lands THEN v ELSE Uninit) ELSE m[j]]

\* ptr::read of slot i; g: the value a garbage slot is read as
ReadSlot(m, i, g) == IF m[i] = Uninit THEN g ELSE m[i]

\* mutant of CopySlots: the shift moves one slot too few
CopySlots_OneShort(m, a, src, dst, count, lands) ==
    [i \in DOMAIN m |->
        IF i >= dst /\ i < dst + count - 1
        THEN IF i < a \/ lands THEN m[i - dst + src] ELSE Uninit
        ELSE m[i]]

\* ptr::copy(p+src, p+dst, count) (memmove) on a block of a slots
CopySlots(m, a, src, dst, count, lands) ==
    [i \in DOMAIN m |->
        IF i >= dst /\ i < dst + count
        THEN IF i < a \/ lands THEN m[i - dst + src] ELSE Uninit
        ELSE m[i]]

\* ptr::read moves the element of slot i out: the slot holds no element any
\* more, and reading it again yields an arbitrary value
MoveOut(m, i) == [m EXCEPT ![i] = Uninit]

\* an access to slots [lo, hi) leaves the block of a slots
OutOfBlock(a, lo, hi) == lo < hi /\ hi > a

\* ------------------------------------------------------------ accessors
is_empty == length = 0
is_full == length = capacity

\* Deref: slice::from_raw_parts(elements, length)
Live == [i \in 1..length |-> mem[i - 1]]

\* the live range lies inside the allocated block and every live slot holds
\* an element
LiveDefined == length <= allocated /\ \A i \in 1..length : mem[i - 1] # Uninit

\* ------------------------------------------------------------ scenario
\* The tracker follows the run "push v1 .. vn with every growth succeeding,
\* then pop until None"; any other call switches it off.
Track(ph, pu, po) == [phase |-> ph, pushed |-> pu, popped |-> po]
TrackOff == Track("off", <<>>, <<>>)
TrackPush(v, result) ==
    IF phase = "pushing" /\ result = Ok
    THEN Track("pushing", Append(pushed, v), popped)
    ELSE TrackOff
TrackPop(result) ==
    IF phase = "pushing" \/ (phase = "popping" /\ popped[Len(popped)].tag = "Some")
    THEN Track("popping", pushed, Append(popped, result))
    ELSE TrackOff

\* ------------------------------------------------------------ state
Init ==
    /\ variant \in Variants
    /\ elements = "dangling"
    /\ capacity = NEW_CAPACITY
    /\ allocated = 0
    /\ mem = AllUninit
    /\ length = 0
    /\ op = Call("new", 0, NoValue, Ok, FALSE)
    /\ prev = <<>>
    /\ grows = 0
    /\ dropped = FALSE
    /\ released = 0
    /\ deallocs = <<>>
    /\ phase = "pushing"
    /\ pushed = <<>>
    /\ popped = <<>>
    /\ chunk = <<>>
    /\ pc = "build"
    /\ offset = 0
    /\ iterations = 0

Current == Buf(capacity, elements, allocated, mem, Ok, FALSE)

\* mutant of GrowIfFull: a full array is written without growing
GrowIfFull_Never(allocOk) == Current

\* if self.is_full() { self.grow()?; }
GrowIfFull(allocOk) == IF is_full THEN grow(allocOk) ELSE Current

SetBuffer(b) ==
    /\ capacity' = b.capacity
    /\ elements' = b.elements
    /\ allocated' = b.allocated
    /\ mem' = b.mem
    /\ grows' = IF b.capacity # capacity /\ b.result = Ok THEN grows + 1 ELSE grows

SetTrack(t) ==
    /\ phase' = t.phase
    /\ pushed' = t.pushed
    /\ popped' = t.popped

NoTeardown == UNCHANGED <<variant, dropped, released, deallocs>>

NoChunk == UNCHANGED <<chunk, pc, offset, iterations>>

\* DynamicSizeArray::push_checked: the buffer, the length and the return value
\* it leaves
push_outcome(element, allocOk, lands) ==
    LET b == GrowIfFull(allocOk) IN
    IF b.result # Ok
    THEN [buffer |-> b, length |-> length, result |-> b.result, ub |-> b.ub]
    ELSE [buffer |-> [b EXCEPT !.mem = WriteSlot(b.mem, b.allocated, length, element, lands)],
          length |-> length + 1,
          result |-> Ok,
          ub |-> b.ub \/ OutOfBlock(b.allocated, length, length + 1)]

\* DynamicSizeArray::push_checked
push_checked(element, allocOk, lands) ==
    /\ ~dropped
    /\ LET o == push_outcome(element, allocOk, lands) IN
         /\ SetBuffer(o.buffer)
         /\ length' = o.length
         /\ op' = Call("push_checked", length, element, o.result, o.ub)
         /\ SetTrack(TrackPush(element, o.result))
    /\ prev' = <<>>
    /\ NoTeardown
    /\ NoChunk

\* mutant of pop: the element read is the first one, not the last
pop_ReadsFirst(g) ==
    /\ ~dropped
    /\ IF is_empty
       THEN /\ length' = length
            /\ op' = Call("pop", 0, NoValue, None, FALSE)
            /\ SetTrack(TrackPop(None))
            /\ mem' = mem
       ELSE LET r == Some(ReadSlot(mem, 0, g)) IN
            /\ length' = length - 1
            /\ mem' = MoveOut(mem, 0)
            /\ op' = Call("pop", length - 1, NoValue, r,
                          OutOfBlock(allocated, 0, 1) \/ mem[0] = Uninit)
            /\ SetTrack(TrackPop(r))
    /\ prev' = <<>>
    /\ UNCHANGED <<capacity, elements, allocated, grows>>
    /\ NoTeardown
    /\ NoChunk

\* DynamicSizeArray::pop; g: what a slot holding no element is read as
pop(g) ==
    /\ ~dropped
    /\ IF is_empty
       THEN /\ length' = length
            /\ op' = Call("pop", 0, NoValue, None, FALSE)
            /\ SetTrack(TrackPop(None))
            /\ mem' = mem
       ELSE LET r == Some(ReadSlot(mem, length - 1, g)) IN
            /\ length' = length - 1
            /\ mem' = MoveOut(mem, length - 1)
            /\ op' = Call("pop", length - 1, NoValue, r,
                          OutOfBlock(allocated, length - 1, length)
                          \/ mem[length - 1] = Uninit)
            /\ SetTrack(TrackPop(r))
    /\ prev' = <<>>
    /\ UNCHANGED <<capacity, elements, allocated, grows>>
    /\ NoTeardown
    /\ NoChunk

\* mutant of insert_checked: the bounds check is index >= length
insert_checked_RejectsAppend(index, element, allocOk, lands) ==
    /\ ~dropped
    /\ length < MaxLength
    /\ IF index >= length
       THEN /\ UNCHANGED <<capacity, elements, allocated, mem, grows, length>>
            /\ op' = Call("insert_checked", index, element, IndexOutOfBounds, FALSE)
       ELSE LET b == GrowIfFull(allocOk) IN
            IF b.result # Ok
            THEN /\ SetBuffer(b)
                 /\ length' = length
                 /\ op' = Call("insert_checked", index, element, b.result, b.ub)
            ELSE LET shifted == CopySlots(b.mem, b.allocated, index, index + 1,
                                          length - index, lands)
                     written == WriteSlot(shifted, b.allocated, index, element, lands)
                 IN  /\ SetBuffer([b EXCEPT !.mem = written])
                     /\ length' = length + 1
                     /\ op' = Call("insert_checked", index, element, Ok,
                                   b.ub \/ OutOfBlock(b.allocated, index, length + 1))
    /\ SetTrack(TrackOff)
    /\ prev' = IF op'.result = Ok THEN Live ELSE <<>>
    /\ NoTeardown
    /\ NoChunk

\* DynamicSizeArray::insert_checked
insert_checked(index, element, allocOk, lands) ==
    /\ ~dropped
    /\ length < MaxLength
    /\ IF index > length
       THEN /\ UNCHANGED <<capacity, elements, allocated, mem, grows, length>>
            /\ op' = Call("insert_checked", index, element, IndexOutOfBounds, FALSE)
       ELSE LET b == GrowIfFull(allocOk) IN
            IF b.result # Ok
            THEN /\ SetBuffer(b)
                 /\ length' = length
                 /\ op' = Call("insert_checked", index, element, b.result, b.ub)
            ELSE LET shifted == CopySlots(b.mem, b.allocated, index, index + 1,
                                          length - index, lands)
                     written == WriteSlot(shifted, b.allocated, index, element, lands)
                 IN  /\ SetBuffer([b EXCEPT !.mem = written])
                     /\ length' = length + 1
                     /\ op' = Call("insert_checked", index, element, Ok,
                                   b.ub \/ OutOfBlock(b.allocated, index, length + 1))
    /\ SetTrack(TrackOff)
    /\ prev' = IF op'.result = Ok THEN Live ELSE <<>>
    /\ NoTeardown
    /\ NoChunk

\* mutant of remove_checked: the bounds check is index > length
remove_checked_OffByOne(index, g, lands) ==
    /\ ~dropped
    /\ IF index > length
       THEN /\ UNCHANGED <<mem, length>>
            /\ op' = Call("remove_checked", index, NoValue, None, FALSE)
       ELSE /\ length' = length - 1
            /\ mem' = MoveOut(CopySlots(mem, allocated, index + 1, index,
                                        length - 1 - index, lands), length - 1)
            /\ op' = Call("remove_checked", index, NoValue, Some(ReadSlot(mem, index, g)),
                          OutOfBlock(allocated, index, length) \/ mem[index] = Uninit)
    /\ UNCHANGED <<capacity, elements, allocated, grows>>
    /\ SetTrack(TrackOff)
    /\ prev' = <<>>
    /\ NoTeardown
    /\ NoChunk

\* DynamicSizeArray::remove_checked; g: what a slot holding no element is read as
remove_checked(index, g, lands) ==
    /\ ~dropped
    /\ IF index >= length
       THEN /\ UNCHANGED <<mem, length>>
            /\ op' = Call("remove_checked", index, NoValue, None, FALSE)
       ELSE /\ length' = length - 1
            /\ mem' = MoveOut(CopySlots(mem, allocated, index + 1, index,
                                        length - 1 - index, lands), length - 1)
            /\ op' = Call("remove_checked", index, NoValue, Some(ReadSlot(mem, index, g)),
                          OutOfBlock(allocated, index, length) \/ mem[index] = Uninit)
    /\ UNCHANGED <<capacity, elements, allocated, grows>>
    /\ SetTrack(TrackOff)
    /\ prev' = <<>>
    /\ NoTeardown
    /\ NoChunk

\* Destruction of a DynamicSizeArray.  The type has no Drop impl, so the drop
\* glue runs no element destructor and only drops the field `buffer`:
\* Drop for RawDynamicSizeArray.
RawDrop ==
    IF capacity # 0 /\ ELEMENT_SIZE # 0 /\ LayoutOk(capacity)
    THEN <<[elements |-> elements, slots |-> capacity]>>
    ELSE <<>>

ElementsDropped == 0

Drop ==
    /\ ~dropped
    /\ dropped' = TRUE
    /\ released' = ElementsDropped
    /\ deallocs' = RawDrop
    /\ op' = Call("drop", 0, NoValue, Ok, RawDrop # <<>> /\ allocated # capacity)
    /\ prev' = <<>>
    /\ UNCHANGED <<variant, capacity, elements, allocated, mem, length, grows,
                   phase, pushed, popped>>
    /\ NoChunk

\* RawDynamicSizeArray::grow called on the buffer itself
raw_grow(allocOk) ==
    /\ ~dropped
    /\ LET b == grow(allocOk) IN
         /\ SetBuffer(b)
         /\ op' = Call("grow", 0, NoValue, b.result, b.ub)
    /\ SetTrack(TrackOff)
    /\ UNCHANGED <<length, prev>>
    /\ NoTeardown
    /\ NoChunk

\* ------------------------------------------------------------ chunk
NoArray ==
    UNCHANGED <<variant, elements, capacity, allocated, mem, length, op, prev, grows,
                dropped, released, deallocs, phase, pushed, popped>>

Opcodes == {"Return"}
NoOpcode == "None"

\* Opcode::new
Opcode_new(byte) == IF byte = 0 THEN "Return" ELSE NoOpcode

\* Opcode::as_byte: the discriminant of the only variant
as_byte(opcode) == CASE opcode = "Return" -> 0

DisOk(o) == [tag |-> "Ok", offset |-> o]
DisErr(tag) == [tag |-> tag, offset |-> 0]

\* Chunk::simple_instruction
simple_instruction(o) == o + 1

\* Chunk::disassemble_instruction
disassemble_instruction(o) ==
    IF o >= Len(chunk)
    THEN DisErr("IndexOutOfBounds")
    ELSE LET opcode == Opcode_new(chunk[o + 1]) IN
         IF opcode = NoOpcode
         THEN DisErr("InvalidOpcode")
         ELSE DisOk(simple_instruction(o))

\* Chunk::push
chunk_push(instruction) ==
    /\ pc = "build"
    /\ Len(chunk) < MaxChunk
    /\ chunk' = Append(chunk, as_byte(instruction))
    /\ UNCHANGED <<pc, offset, iterations>>
    /\ NoArray

\* a store through Chunk::as_bytes_mutable
as_bytes_mutable(i, byte) ==
    /\ pc = "build"
    /\ i < Len(chunk)
    /\ chunk' = [chunk EXCEPT ![i + 1] = byte]
    /\ UNCHANGED <<pc, offset, iterations>>
    /\ NoArray

\* Chunk::disassemble: entry, `let mut offset = 0`
disassemble ==
    /\ pc = "build"
    /\ pc' = "loop"
    /\ offset' = 0
    /\ iterations' = 0
    /\ UNCHANGED chunk
    /\ NoArray

\* Chunk::disassemble: one evaluation of the loop condition and, when it
\* holds, one iteration; an Err arm runs `continue` and assigns nothing
disassemble_iteration ==
    /\ pc = "loop"
    /\ IF offset < Len(chunk)
       THEN /\ iterations < MaxIterations
            /\ LET r == disassemble_instruction(offset) IN
                 offset' = IF r.tag = "Ok" THEN r.offset ELSE offset
            /\ iterations' = iterations + 1
            /\ pc' = pc
       ELSE /\ pc' = "done"
            /\ UNCHANGED <<offset, iterations>>
    /\ UNCHANGED chunk
    /\ NoArray

\* the choices a call leaves to the allocator and to undefined behaviour
AllocOutcomes == IF is_full THEN BOOLEAN ELSE {TRUE}
LandOutcomes(hi) == IF hi > allocated THEN BOOLEAN ELSE {TRUE}
ReadOutcomes(i) == IF i >= 0 /\ i < length /\ mem[i] = Uninit THEN Values ELSE {1}

Next ==
    \/ /\ length < MaxLength
       /\ \E v \in Values, allocOk \in AllocOutcomes, lands \in LandOutcomes(length + 1) :
             push_checked(v, allocOk, lands)
    \/ \E g \in ReadOutcomes(length - 1) : pop(g)
    \/ \E i \in 0..MaxLength, v \in Values, allocOk \in AllocOutcomes,
          lands \in LandOutcomes(length + 1) :
          insert_checked(i, v, allocOk, lands)
    \/ \E i \in 0..MaxLength, lands \in LandOutcomes(length - 1) :
          \E g \in ReadOutcomes(i) : remove_checked(i, g, lands)
    \/ Drop

Spec == Init /\ [][Next]_vars

\* the raw buffer alone: any sequence of grow() calls, then its teardown
NextRaw ==
    \/ /\ capacity < MaxCapacity
       /\ \E allocOk \in BOOLEAN : raw_grow(allocOk)
    \/ Drop

SpecRaw == Init /\ [][NextRaw]_vars

\* consecutive pushes from the empty array, every growth succeeding
NextPush ==
    /\ length < MaxPushes
    /\ \E v \in Values : push_checked(v, TRUE, TRUE)

SpecPush == Init /\ [][NextPush]_vars

\* a chunk built with push and as_bytes_mutable, then disassembled
NextChunk ==
    \/ \E instruction \in Opcodes : chunk_push(instruction)
    \/ \E i \in 0..(MaxChunk - 1), byte \in Bytes : as_bytes_mutable(i, byte)
    \/ disassemble
    \/ disassemble_iteration

SpecChunk == Init /\ [][NextChunk]_vars

\* ============================================================ properties
\* the sequence s with v inserted so that it becomes element i (0-based)
InsertAt(s, i, v) ==
    [k \in 1..(Len(s) + 1) |-> IF k <= i THEN s[k] ELSE IF k = i + 1 THEN v ELSE s[k - 1]]

\* the sequence s without its element i (0-based)
RemoveAt(s, i) ==
    [k \in 1..(Len(s) - 1) |-> IF k <= i THEN s[k] ELSE s[k + 1]]

IsPushOrInsert(c) == c.name \in {"push_checked", "insert_checked"}

\* C1: the capacity field never describes more memory than is allocated, and
\* after a growth error it equals the slots of the block really allocated.
C1_CapacityDescribesAllocation ==
    /\ capacity <= allocated
    /\ (IsPushOrInsert(op) /\ op.result \in GrowErrors) => capacity = allocated

\* C2: length <= capacity in every reachable state.
C2_LengthWithinCapacity == length <= capacity

C2_Witness ==
    /\ op.name = "insert_checked" /\ op.result = Ok
    /\ length = capacity /\ length >= 2

\* C3: no step decreases capacity; pop and remove_checked leave it unchanged.
C3_CapacityMonotone ==
    [][/\ capacity' >= capacity
       /\ op'.name \in {"pop", "remove_checked"} => capacity' = capacity]_vars

C3_Witness ==
    /\ op.name = "remove_checked" /\ op.result.tag = "Some"
    /\ grows >= 2 /\ length < capacity

\* C4: after pushing v1 .. vn with every growth succeeding, the pops return
\* vn, .., v1 in that order and the pop after them returns None.
C4_LifoRoundTrip ==
    phase = "popping" =>
        /\ Len(popped) <= Len(pushed) + 1
        /\ \A k \in 1..Len(popped) :
              popped[k] = IF k <= Len(pushed)
                          THEN Some(pushed[Len(pushed) + 1 - k])
                          ELSE None

C4_Witness ==
    /\ phase = "popping"
    /\ Len(pushed) = MaxLength
    /\ Len(popped) = Len(pushed) + 1
    /\ pushed[1] # pushed[2]

\* C5: an insert_checked(i, v) that returns Ok on the live sequence
\* [a0..a(n-1)] leaves the live sequence [a0..a(i-1), v, ai..a(n-1)], of
\* length n+1.
C5_InsertShiftsRight ==
    [][(op'.name = "insert_checked" /\ op'.result = Ok /\ LiveDefined) =>
         /\ length' = length + 1
         /\ Live' = InsertAt(Live, op'.index, op'.value)]_vars

\* C6: remove_checked(i) with i < n on the live sequence [a0..a(n-1)] returns
\* Some(ai) and leaves [a0..a(i-1), a(i+1)..a(n-1)], of length n-1.
C6_RemoveShiftsLeft ==
    [][(op'.name = "remove_checked" /\ op'.index < length /\ LiveDefined) =>
         /\ op'.result = Some(Live[op'.index + 1])
         /\ length' = length - 1
         /\ Live' = RemoveAt(Live, op'.index)]_vars

C6_Witness ==
    /\ op.name = "remove_checked" /\ op.result.tag = "Some"
    /\ op.index = 0 /\ length = 2 /\ mem[0] # mem[1]
    /\ LiveDefined

\* C7: remove_checked(i) right after an insert_checked(i, v) that returned Ok
\* returns v and restores the live sequence and the length.
C7_InsertRemoveInverse ==
    [][(/\ op.name = "insert_checked" /\ op.result = Ok
        /\ op'.name = "remove_checked" /\ op'.index = op.index) =>
         /\ op'.result = Some(op.value)
         /\ length' = Len(prev)
         /\ Live' = prev]_vars

\* C8: insert_checked with index > length reports IndexOutOfBounds and
\* remove_checked with index >= length reports None; neither changes length,
\* capacity or contents, and neither attempts a growth.
C8_BoundsRejection ==
    [][/\ (op'.name = "insert_checked" /\ op'.index > length) =>
             /\ op'.result = IndexOutOfBounds
             /\ UNCHANGED <<length, capacity, elements, allocated, mem, grows>>
       /\ (op'.name = "remove_checked" /\ op'.index >= length) =>
             /\ op'.result = None
             /\ UNCHANGED <<length, capacity, elements, allocated, mem, grows>>]_vars

C8_Witness ==
    /\ op.name = "insert_checked" /\ op.result = IndexOutOfBounds
    /\ is_full /\ length >= 1

\* C9: a push_checked or insert_checked that returns a growth error leaves
\* the array exactly as it was: length, contents, capacity and allocation.
C9_FailedCallChangesNothing ==
    [][(IsPushOrInsert(op') /\ op'.result \in GrowErrors) =>
         UNCHANGED <<length, capacity, elements, allocated, mem>>]_vars

\* C10: destroying the array releases each of the `length` live elements once
\* and then frees the buffer once.
C10_TeardownReleasesAll ==
    dropped =>
        /\ released = length
        /\ allocated > 0 => Len(deallocs) = 1

\* the least k with 2^k >= n
CeilLog2(n) == CHOOSE k \in 0..n : 2^k >= n /\ \A j \in 0..(k - 1) : 2^j < n

IsArrayCall(c) == c.name \in {"push_checked", "pop", "insert_checked", "remove_checked"}

\* C11: the teardown of the raw buffer calls dealloc at most once, only when a
\* block is allocated, and with the layout that block was allocated with.
C11_TeardownFreesLiveBlock ==
    dropped =>
        /\ Len(deallocs) <= 1
        /\ allocated = 0 => deallocs = <<>>
        /\ deallocs # <<>> =>
              /\ deallocs[1].elements = "block"
              /\ deallocs[1].slots = allocated

C13_LogarithmicGrowths ==
    length >= 1 => grows <= CeilLog2(length) + 1

C13_Witness ==
    /\ variant = "lib" /\ op.name = "push_checked"
    /\ length = 9 /\ grows = 5 /\ capacity = 16

\* C14: the view covers the slots [0, length), each inside the allocated
\* block and holding an initialized element.
C14_ViewCoversLiveElements ==
    ~dropped => (length <= capacity /\ LiveDefined)

\* C15: a successful growth strictly increases capacity and, where the live
\* elements are defined, leaves them as they were: the call that grew only
\* adds its own element.
C15_GrowKeepsElements ==
    [][grows' = grows + 1 =>
         /\ capacity' > capacity
         /\ LiveDefined =>
               /\ length' = length + 1
               /\ op'.name = "push_checked" => SubSeq(Live', 1, length) = Live
               /\ op'.name = "insert_checked" => RemoveAt(Live', op'.index) = Live]_vars

C15_Witness ==
    /\ variant = "lib" /\ op.name = "insert_checked" /\ op.result = Ok /\ op.index = 0
    /\ length = 3 /\ capacity = 4 /\ allocated = 4 /\ grows = 3
    /\ mem[1] # mem[2] /\ LiveDefined

\* C16: insert_checked(length, v) returns what push_checked(v) returns and
\* leaves the state push_checked(v) leaves.
C16_InsertAtLengthIsPush ==
    [][(op'.name = "insert_checked" /\ op'.index = length) =>
         \E allocOk \in AllocOutcomes, lands \in LandOutcomes(length + 1) :
            LET o == push_outcome(op'.value, allocOk, lands) IN
            /\ op'.result = o.result
            /\ length' = o.length
            /\ capacity' = o.buffer.capacity
            /\ elements' = o.buffer.elements
            /\ allocated' = o.buffer.allocated
            /\ mem' = o.buffer.mem
            /\ grows' = IF capacity' # capacity /\ o.result = Ok
                        THEN grows + 1 ELSE grows]_vars

C16_Witness ==
    /\ op.name = "insert_checked" /\ op.result = Ok
    /\ op.index = length - 1 /\ length = 3 /\ grows = 3
    /\ LiveDefined

\* C17: no call writes outside the allocated block, and none reads or shifts
\* a slot that holds no element.
C17_NoAccessOutsideBlock ==
    IsArrayCall(op) => ~op.ub

\* C18: disassemble finishes after at most `length` iterations of its loop.
C18_DisassembleTerminates ==
    iterations <= Len(chunk)

====
